---- MODULE Spec2Model ----
(***************************************************************************)
(* Model of the desima site provisioning engine (package src/desima and    *)
(* the command layer of src/desima.py).  The state is the content of the   *)
(* base directory ~/www, the set of live service processes and the         *)
(* working directory of the operator's process; one action per entry       *)
(* point (install, remove, find_unused_port, sdo).  inflight holds, for    *)
(* each of two concurrent operator processes, the install command it is in *)
(* the middle of.                                                          *)
(***************************************************************************)
EXTENDS Integers, Sequences, FiniteSets, TLC

VARIABLES base, running, cwd, res, inflight

vars == <<base, running, cwd, res, inflight>>

(***************************************************************************)
(* Characters and the two regular expressions                              *)
(***************************************************************************)
AsciiLetters == {"a", "b", "c", "d", "i", "p", "s", "t", "e", "Z"}
Digits == {"0", "1", "2", "3", "4", "5", "6", "7", "8", "9"}
\* a letter outside ASCII: Python 3 matches it with \w in a str pattern
UnicodeLetters == {"é"}
LF == "\n"

IsAsciiLetter(c) == c \in AsciiLetters

\* \w of a Python 3 str pattern (Unicode word character)
IsWord(c) == c \in AsciiLetters \cup UnicodeLetters \cup Digits \cup {"_"}

\* lengths n of a prefix s[1..n] after which `$` matches: the end of the
\* string, or just before one trailing newline
DollarEnds(s) ==
    {Len(s)} \cup (IF Len(s) >= 1 /\ s[Len(s)] = LF THEN {Len(s) - 1} ELSE {})

\* the quantifier {0,23} of VALID_SITE_ID
MaxIdTail == 23

\* VALID_SITE_ID.match(site_id) is not None
is_valid_site_id(site_id) ==
    /\ Len(site_id) >= 1
    /\ IsAsciiLetter(site_id[1])
    /\ \E n \in DollarEnds(site_id) :
          /\ n >= 1
          /\ n - 1 <= MaxIdTail
          /\ \A i \in 2..n : IsWord(site_id[i])

SitePrefix == <<"s", "i", "t", "e", "-">>

\* SITE_FORMAT.match(entry) is not None, SITE_FORMAT = ^site-\w+$
SiteFormat(entry) ==
    /\ Len(entry) > Len(SitePrefix)
    /\ SubSeq(entry, 1, Len(SitePrefix)) = SitePrefix
    /\ \E n \in DollarEnds(entry) :
          /\ n > Len(SitePrefix)
          /\ \A i \in (Len(SitePrefix) + 1)..n : IsWord(entry[i])

\* positions of '-' in a name
Dashes(s) == {i \in 1..Len(s) : s[i] = "-"}

Min(S) == CHOOSE x \in S : \A y \in S : x <= y

\* entry.split('-')[1], for an entry holding at least one '-'
SplitId(entry) ==
    LET d1 == Min(Dashes(entry))
        later == {i \in Dashes(entry) : i > d1}
        stop == IF later = {} THEN Len(entry) + 1 ELSE Min(later)
    IN  SubSeq(entry, d1 + 1, stop - 1)

\* the last path component of site_directory(site_id)
site_directory(site_id) == SitePrefix \o site_id

(***************************************************************************)
(* Constants of the program                                                *)
(***************************************************************************)
PORT_MIN == 10000
PORT_MAX == 10100
PORT_STEP == 3

\* range(PORT_MIN, PORT_MAX, PORT_STEP)
port_range == {p \in PORT_MIN..(PORT_MAX - 1) : (p - PORT_MIN) % PORT_STEP = 0}

Servers == {"www", "db"}
ScriptActions == {"start", "stop", "isrunning"}

NoPort == -1


(***************************************************************************)
(* The file system under BASE.  base maps the name of an entry of BASE to  *)
(* [kind, port, files]: kind is "dir" or "file", port the integer held by  *)
(* the PORT file (NoPort when there is none), files maps each other path   *)
(* below the entry to its mode ("dir", "rw" or "rwx").                     *)
(***************************************************************************)
EmptyFiles == [p \in {} |-> "rw"]

\* http, https and db are the ports rendered into the configuration files
\* www maps each path below the www directory of the site (a string of
\* characters, components separated by "/") to "dir" or "file"
EmptyTree == [p \in {} |-> "dir"]

NewDir ==
    [kind |-> "dir", port |-> NoPort, files |-> EmptyFiles,
     http |-> NoPort, https |-> NoPort, db |-> NoPort, www |-> EmptyTree]

AddFiles(files, paths, mode) ==
    [p \in (DOMAIN files) \cup paths |-> IF p \in paths THEN mode ELSE files[p]]

\* names of the directories of the working directory of a process that is
\* not started in BASE
OtherDirs == {site_directory(<<"b", "1">>)}

\* isdir(entry): the entry is resolved against the working directory
isdir(b, wd, entry) ==
    IF wd = "base" THEN entry \in DOMAIN b /\ b[entry].kind = "dir"
    ELSE entry \in OtherDirs

list_sites(b, wd) ==
    {SplitId(entry) : entry \in {e \in DOMAIN b : isdir(b, wd, e) /\ SiteFormat(e)}}

find_site(b, wd, site_id) == site_id \in list_sites(b, wd)

HasPort(b, site_id) ==
    /\ site_directory(site_id) \in DOMAIN b
    /\ b[site_directory(site_id)].kind = "dir"
    /\ b[site_directory(site_id)].port # NoPort

\* int(open(join(site_directory(site_id), 'PORT')).read(1000))
site_port(b, site_id) == b[site_directory(site_id)].port

HasScript(b, site_id, script) ==
    /\ site_directory(site_id) \in DOMAIN b
    /\ b[site_directory(site_id)].kind = "dir"
    /\ script \in DOMAIN b[site_directory(site_id)].files

ScriptName(server, action) ==
    CASE server = "db" /\ action = "start" -> "db.start"
      [] server = "db" /\ action = "stop" -> "db.stop"
      [] server = "db" /\ action = "isrunning" -> "db.isrunning"
      [] server = "www" /\ action = "start" -> "www.start"
      [] server = "www" /\ action = "stop" -> "www.stop"
      [] server = "www" /\ action = "isrunning" -> "www.isrunning"

(***************************************************************************)
(* Control scripts.  The scripts are rendered from templates that are not  *)
(* part of the sources: their behaviour follows the data model of the      *)
(* specification (exit code 0 of isrunning means "is running").            *)
(***************************************************************************)
ExitCodes == {0, 1}

\* exit code of a control script; code is the code start and stop end with
ScriptExit(run, action, server, site_id, code) ==
    IF action = "isrunning"
    THEN (IF <<site_id, server>> \in run THEN 0 ELSE 1)
    ELSE code

\* the processes alive after a control script ran
ScriptEffect(run, action, server, site_id, code) ==
    CASE action = "start" /\ code = 0 -> run \cup {<<site_id, server>>}
      [] action = "stop" /\ code = 0 -> run \ {<<site_id, server>>}
      [] OTHER -> run

\* the exit code taken for a truth value
sdo_truthy(exit) == exit # 0

\* the value sdo returns for the exit code of the script
sdo(exit) == 0 = exit

\* the error call([script]) raises, "OK" when the script can be run
sdo_error(b, action, server, site_id) ==
    IF ~is_valid_site_id(site_id) THEN "AssertionError"
    ELSE IF ~HasScript(b, site_id, ScriptName(server, action))
         THEN "FileNotFoundError"
    ELSE IF b[site_directory(site_id)].files[ScriptName(server, action)] # "rwx"
         THEN "PermissionError"
    ELSE "OK"

ScriptCall(server, action, site_id) ==
    [cmd |-> ScriptName(server, action), site |-> site_id, nargs |-> 0,
     port |-> NoPort]

ToolCall(tool, site_id, n, port) ==
    [cmd |-> tool, site |-> site_id, nargs |-> n, port |-> port]

(***************************************************************************)
(* Registry and port allocator                                             *)
(***************************************************************************)
\* the error the tuple of one site raises in sites_states, "OK" if none
probe_error(b, site_id) ==
    IF ~HasPort(b, site_id) THEN "FileNotFoundError"
    ELSE IF sdo_error(b, "isrunning", "www", site_id) # "OK"
         THEN sdo_error(b, "isrunning", "www", site_id)
    ELSE sdo_error(b, "isrunning", "db", site_id)

\* the errors sites_states can end with (listdir gives no order)
sites_states_errors(b, wd) ==
    {probe_error(b, i) : i \in list_sites(b, wd)} \ {"OK"}

\* sites_states that probes the web server only and reports its state for
\* the database server too
sites_states_oneprobe(b, run, wd) ==
    {<<i, site_port(b, i),
       sdo(ScriptExit(run, "isrunning", "www", i, 0)),
       sdo(ScriptExit(run, "isrunning", "www", i, 0))>> : i \in list_sites(b, wd)}

sites_states(b, run, wd) ==
    {<<i, site_port(b, i),
       sdo(ScriptExit(run, "isrunning", "www", i, 0)),
       sdo(ScriptExit(run, "isrunning", "db", i, 0))>> : i \in list_sites(b, wd)}

used_ports(b, run, wd) == {t[2] : t \in sites_states(b, run, wd)}

\* the ports next() can draw from; empty means StopIteration
free_ports(b, run, wd) ==
    LET used == used_ports(b, run, wd)
    IN  {p \in port_range : p \notin used}

find_unused_port(b, run, wd) ==
    LET free == free_ports(b, run, wd)
    IN  Min(free)

\* the errors find_unused_port can end with
find_unused_port_errors(b, run, wd) ==
    LET errors == sites_states_errors(b, wd)
    IN  IF errors # {} THEN errors
        ELSE IF free_ports(b, run, wd) = {} THEN {"StopIteration"}
        ELSE {}


(***************************************************************************)
(* Installers.  An installer works on a context [b, run, err, calls]: the  *)
(* file system, the live processes, the exception raised so far ("OK"      *)
(* when none) and the external commands run so far.  env tells which       *)
(* vendor tools are missing or fail and the exit codes of db.start and     *)
(* db.stop.                                                                *)
(***************************************************************************)
Fail(c, e) == [c EXCEPT !.err = e]

Call(c, call) == [c EXCEPT !.calls = Append(@, call)]

WithFiles(c, site_id, paths, mode) ==
    [c EXCEPT !.b[site_directory(site_id)].files = AddFiles(@, paths, mode)]

\* sdo(action, server, site_id) with its result dropped
sdo_step(c, action, server, site_id, code) ==
    IF c.err # "OK" THEN c
    ELSE IF sdo_error(c.b, action, server, site_id) # "OK"
         THEN Fail(c, sdo_error(c.b, action, server, site_id))
    ELSE [c EXCEPT
            !.run = ScriptEffect(@, action, server, site_id,
                                 ScriptExit(@, action, server, site_id, code)),
            !.calls = Append(@, ScriptCall(server, action, site_id))]

DbDirs == {"db", "db/run", "db/log", "db/data"}
LogDir == <<"l", "o", "g">>
LockDir == <<"l", "o", "c", "k">>
RunDir == <<"r", "u", "n">>
DocDir == <<"d", "o", "c">>
WwwDirs == {LogDir, LockDir, RunDir, DocDir}
DbScripts == {"db.start", "db.stop", "db.isrunning"}
WwwScripts == {"www.start", "www.stop", "www.isrunning"}

mysql_create_user(c, site_id, env) ==
    LET c1 == sdo_step(c, "start", "db", site_id, env.start)
        c2 == IF "clientMissing" \in env.faults
              THEN Fail(c1, "FileNotFoundError")
              ELSE Call(c1, ToolCall("mysql", site_id, 2, NoPort))
    IN  IF c2.err # "OK" THEN c2
        ELSE sdo_step(c2, "stop", "db", site_id, env.stop)

\* mysql_install from the rendering of the templates on
mysql_render(c, site_id, port, env) ==
    LET c1 == WithFiles(c, site_id, {"mysql.conf"}, "rw")
        c2 == WithFiles(c1, site_id, DbScripts, "rwx")
        c3 == [c2 EXCEPT !.b[site_directory(site_id)].db = port + 2]
        c4 == Call(c3, ToolCall("mysql_install_db", site_id, 1, NoPort))
    IN  IF "initFails" \in env.faults THEN Fail(c4, "CalledProcessError")
        ELSE mysql_create_user(c4, site_id, env)

\* the name S_XUSR is not defined in mysql.py: the mask of the scripts
\* cannot be computed
mysql_install(c, site_id, port, env) ==
    LET c1 == WithFiles(c, site_id, DbDirs, "dir")
    IN  Fail(c1, "NameError")

\* Popen(...).communicate(...) keeps neither the exit code of psql nor the
\* value of sdo: "clientFails" and the codes of db.start and db.stop raise
\* nothing
pgsql_create_user(c, site_id, env) ==
    LET port == site_port(c.b, site_id)
        c1 == sdo_step(c, "start", "db", site_id, env.start)
        c2 == IF "clientMissing" \in env.faults
              THEN Fail(c1, "FileNotFoundError")
              ELSE Call(c1, ToolCall("psql", site_id, 3, port))
    IN  IF c2.err # "OK" THEN c2
        ELSE sdo_step(c2, "stop", "db", site_id, env.stop)

\* pgsql_install that takes the missing binary directory for an error
pgsql_install_strict(c, site_id, port, env) ==
    IF "pgsqlMissing" \in env.faults THEN Fail(c, "TypeError")
    ELSE
    LET c1 == WithFiles(c, site_id, DbDirs, "dir")
        c2 == Call(c1, ToolCall("initdb", site_id, 2, NoPort))
        c3 == WithFiles(c2, site_id, {"db/data/PG_VERSION"}, "rw")
        c4 == Call(c3, ToolCall("postgres", site_id, 1, NoPort))
        c5 == WithFiles(c4, site_id,
                        {"db/data/postgresql.conf", "db/data/pg_ident.conf",
                         "db/data/pg_hba.conf"}, "rw")
        c6 == WithFiles(c5, site_id, DbScripts, "rwx")
        c7 == [c6 EXCEPT !.b[site_directory(site_id)].db = port + 2]
    IN  IF "initFails" \in env.faults THEN Fail(c2, "CalledProcessError")
        ELSE IF "versionFails" \in env.faults THEN Fail(c4, "CalledProcessError")
        ELSE pgsql_create_user(c7, site_id, env)

pgsql_install(c, site_id, port, env) ==
    IF "pgsqlMissing" \in env.faults THEN c
    ELSE
    LET c1 == WithFiles(c, site_id, DbDirs, "dir")
        c2 == Call(c1, ToolCall("initdb", site_id, 2, NoPort))
        c3 == WithFiles(c2, site_id, {"db/data/PG_VERSION"}, "rw")
        c4 == Call(c3, ToolCall("postgres", site_id, 1, NoPort))
        c5 == WithFiles(c4, site_id,
                        {"db/data/postgresql.conf", "db/data/pg_ident.conf",
                         "db/data/pg_hba.conf"}, "rw")
        c6 == WithFiles(c5, site_id, DbScripts, "rwx")
        c7 == [c6 EXCEPT !.b[site_directory(site_id)].db = port + 2]
    IN  IF "initFails" \in env.faults THEN Fail(c2, "CalledProcessError")
        ELSE IF "versionFails" \in env.faults THEN Fail(c4, "CalledProcessError")
        ELSE pgsql_create_user(c7, site_id, env)

apache2_install(c, site_id, port, env) ==
    LET c0 == WithFiles(c, site_id, {"www"}, "dir")
        c1 == [c0 EXCEPT !.b[site_directory(site_id)].www =
                            [p \in WwwDirs |-> "dir"]]
        c2 == Call(c1, ToolCall("apache2", site_id, 1, NoPort))
        c3 == WithFiles(c2, site_id, {"apache2.conf"}, "rw")
        c4 == WithFiles(c3, site_id, WwwScripts, "rwx")
        c5 == [c4 EXCEPT !.b[site_directory(site_id)].http = port,
                         !.b[site_directory(site_id)].https = port + 1]
    IN  IF "apacheMissing" \in env.faults THEN Fail(c1, "TypeError")
        ELSE IF "apacheFails" \in env.faults THEN Fail(c2, "CalledProcessError")
        ELSE c5

db_install(c, db_type, site_id, port, env) ==
    IF db_type = "mysql" THEN mysql_install(c, site_id, port, env)
    ELSE pgsql_install(c, site_id, port, env)


(***************************************************************************)
(* Application archives.  An archive is the list of its member names, each *)
(* a string of characters; the name of a directory member ends with "/".   *)
(***************************************************************************)
StartsWith(s, prefix) ==
    Len(s) >= Len(prefix) /\ SubSeq(s, 1, Len(prefix)) = prefix

NoRoot == <<>>

\* None is NoRoot; the archive has at least one member
get_root_directory(members) ==
    LET root_directory ==
            IF members[1][Len(members[1])] # "/" THEN members[1] \o <<"/">>
            ELSE members[1]
    IN  IF \E k \in 2..Len(members) : ~StartsWith(members[k], root_directory)
        THEN NoRoot
        ELSE root_directory

\* a name without its trailing "/"
Strip(name) ==
    IF Len(name) >= 1 /\ name[Len(name)] = "/"
    THEN SubSeq(name, 1, Len(name) - 1) ELSE name

\* the directories above a path
Parents(path) == {SubSeq(path, 1, i - 1) : i \in {j \in 2..Len(path) : path[j] = "/"}}

MemberKind(name) == IF name[Len(name)] = "/" THEN "dir" ELSE "file"

\* the paths tar or unzip writes for the members, below the prefix dest
Extracted(dest, members) ==
    LET path(k) == dest \o Strip(members[k])
        named == {path(k) : k \in 1..Len(members)}
        above == UNION {Parents(path(k)) : k \in 1..Len(members)}
    IN  [p \in named \cup above |->
            IF \E k \in 1..Len(members) : path(k) = p /\ MemberKind(members[k]) = "file"
            THEN "file" ELSE "dir"]

\* tar or unzip refuses to replace a directory by a file and conversely
ExtractClash(tree, dest, members) ==
    \E p \in DOMAIN Extracted(dest, members) :
        p \in DOMAIN tree /\ tree[p] # Extracted(dest, members)[p]

ExtractInto(tree, dest, members) ==
    [p \in (DOMAIN tree) \cup DOMAIN Extracted(dest, members) |->
        IF p \in DOMAIN Extracted(dest, members)
        THEN Extracted(dest, members)[p] ELSE tree[p]]

Below(tree, dir) == {p \in DOMAIN tree : StartsWith(p, dir \o <<"/">>)}

\* rename(src, dst) of a directory src onto a free name dst
Renamed(tree, src, dst) ==
    LET moved == {src} \cup Below(tree, src)
        target(p) == dst \o SubSeq(p, Len(src) + 1, Len(p))
        kept == (DOMAIN tree) \ moved
    IN  [q \in kept \cup {target(p) : p \in moved} |->
            IF q \in kept THEN tree[q]
            ELSE tree[CHOOSE p \in moved : target(p) = q]]

NoApp == [given |-> FALSE, members |-> <<>>]

Archive(members) == [given |-> TRUE, members |-> members]

application_install(c, site_id, app, env) ==
    LET dir == site_directory(site_id)
        root_directory == get_root_directory(app.members)
        dest == IF root_directory = NoRoot THEN DocDir \o <<"/">> ELSE <<>>
        tool == ToolCall("extract", site_id, 3, NoPort)
        tree == c.b[dir].www
        c1 == Call(c, tool)
        c2 == [c1 EXCEPT !.b[dir].www = ExtractInto(tree, dest, app.members)]
        tree2 == c2.b[dir].www
        src == Strip(root_directory)
        c3 == [c2 EXCEPT !.b[dir].www =
                  [p \in (DOMAIN tree2) \ {DocDir} |-> tree2[p]]]
        tree3 == c3.b[dir].www
    IN  IF ~is_valid_site_id(site_id) THEN Fail(c, "AssertionError")
        ELSE IF app.members = <<>> THEN Fail(c, "IndexError")
        ELSE IF "extractFails" \in env.faults
                \/ "www" \notin DOMAIN c.b[dir].files
                \/ (dest # <<>> /\ Strip(dest) \notin DOMAIN tree)
                \/ ExtractClash(tree, dest, app.members)
             THEN Fail(c1, "CalledProcessError")
        ELSE IF root_directory = NoRoot THEN c2
        ELSE IF DocDir \notin DOMAIN tree2 THEN Fail(c2, "FileNotFoundError")
        ELSE IF Below(tree2, DocDir) # {} THEN Fail(c2, "OSError")
        ELSE IF src \notin DOMAIN tree3 THEN Fail(c3, "FileNotFoundError")
        ELSE IF tree3[src] # "dir" THEN Fail(c3, "NotADirectoryError")
        ELSE [c3 EXCEPT !.b[dir].www = Renamed(tree3, src, DocDir)]


(***************************************************************************)
(* Site lifecycle                                                          *)
(***************************************************************************)
Ctx(b, run) == [b |-> b, run |-> run, err |-> "OK", calls |-> <<>>]

AddEntry(b, entry, rec) ==
    [e \in (DOMAIN b) \cup {entry} |-> IF e = entry THEN rec ELSE b[e]]

DropEntry(b, entry) == [e \in (DOMAIN b) \ {entry} |-> b[e]]

\* site_install without the check of the identifier
site_install_novalid(b, run, wd, site_id, port, db_type, app, env) ==
    LET dir == site_directory(site_id)
        c0 == Ctx(b, run)
        c1 == [c0 EXCEPT !.b = AddEntry(b, dir, [NewDir EXCEPT !.port = port])]
        c2 == db_install(c1, db_type, site_id, port, env)
        c3 == IF c2.err # "OK" THEN c2
              ELSE apache2_install(c2, site_id, port, env)
    IN  IF find_site(b, wd, site_id) THEN Fail(c0, "ValueError:exists")
        ELSE IF dir \in DOMAIN b THEN Fail(c0, "FileExistsError")
        ELSE IF c3.err # "OK" \/ ~app.given THEN c3
        ELSE application_install(c3, site_id, app, env)

\* site_install without the look-up of the identifier in the registry
site_install_nofind(b, run, wd, site_id, port, db_type, app, env) ==
    LET dir == site_directory(site_id)
        c0 == Ctx(b, run)
        c1 == [c0 EXCEPT !.b = AddEntry(b, dir, [NewDir EXCEPT !.port = port])]
        c2 == db_install(c1, db_type, site_id, port, env)
        c3 == IF c2.err # "OK" THEN c2
              ELSE apache2_install(c2, site_id, port, env)
    IN  IF ~is_valid_site_id(site_id) THEN Fail(c0, "ValueError:invalid")
        ELSE IF dir \in DOMAIN b THEN Fail(c0, "FileExistsError")
        ELSE IF c3.err # "OK" \/ ~app.given THEN c3
        ELSE application_install(c3, site_id, app, env)

\* site_install that refuses a port another site holds
site_install_freeport(b, run, wd, site_id, port, db_type, app, env) ==
    LET dir == site_directory(site_id)
        c0 == Ctx(b, run)
        c1 == [c0 EXCEPT !.b = AddEntry(b, dir, [NewDir EXCEPT !.port = port])]
        c2 == db_install(c1, db_type, site_id, port, env)
        c3 == IF c2.err # "OK" THEN c2
              ELSE apache2_install(c2, site_id, port, env)
    IN  IF ~is_valid_site_id(site_id) THEN Fail(c0, "ValueError:invalid")
        ELSE IF find_site(b, wd, site_id) THEN Fail(c0, "ValueError:exists")
        ELSE IF port \in {b[e].port : e \in DOMAIN b}
             THEN Fail(c0, "ValueError:port")
        ELSE IF dir \in DOMAIN b THEN Fail(c0, "FileExistsError")
        ELSE IF c3.err # "OK" \/ ~app.given THEN c3
        ELSE application_install(c3, site_id, app, env)

\* site_install that runs the web server installer before the database
\* installer
site_install_wwwfirst(b, run, wd, site_id, port, db_type, app, env) ==
    LET dir == site_directory(site_id)
        c0 == Ctx(b, run)
        c1 == [c0 EXCEPT !.b = AddEntry(b, dir, [NewDir EXCEPT !.port = port])]
        c2 == apache2_install(c1, site_id, port, env)
        c3 == IF c2.err # "OK" THEN c2
              ELSE db_install(c2, db_type, site_id, port, env)
    IN  IF ~is_valid_site_id(site_id) THEN Fail(c0, "ValueError:invalid")
        ELSE IF find_site(b, wd, site_id) THEN Fail(c0, "ValueError:exists")
        ELSE IF dir \in DOMAIN b THEN Fail(c0, "FileExistsError")
        ELSE IF c3.err # "OK" \/ ~app.given THEN c3
        ELSE application_install(c3, site_id, app, env)

site_install(b, run, wd, site_id, port, db_type, app, env) ==
    LET dir == site_directory(site_id)
        c0 == Ctx(b, run)
        \* mkdir, then the PORT file
        c1 == [c0 EXCEPT !.b = AddEntry(b, dir, [NewDir EXCEPT !.port = port])]
        c2 == db_install(c1, db_type, site_id, port, env)
        c3 == IF c2.err # "OK" THEN c2
              ELSE apache2_install(c2, site_id, port, env)
    IN  IF ~is_valid_site_id(site_id) THEN Fail(c0, "ValueError:invalid")
        ELSE IF find_site(b, wd, site_id) THEN Fail(c0, "ValueError:exists")
        ELSE IF dir \in DOMAIN b THEN Fail(c0, "FileExistsError")
        ELSE IF c3.err # "OK" \/ ~app.given THEN c3
        ELSE application_install(c3, site_id, app, env)

\* "if sdo(ISRUNNING, server, site_id): sdo(STOP, server, site_id)"
stop_if_running(c, server, site_id, code) ==
    LET c1 == sdo_step(c, "isrunning", server, site_id, 0)
    IN  IF c1.err # "OK" THEN c1
        ELSE IF sdo(ScriptExit(c.run, "isrunning", server, site_id, 0))
             THEN sdo_step(c1, "stop", server, site_id, code)
        ELSE c1

\* remove_site without the final rm
remove_site_keep(b, run, wd, site_id, env) ==
    LET c0 == Ctx(b, run)
        c1 == stop_if_running(c0, "www", site_id, env.wwwstop)
        c2 == stop_if_running(c1, "db", site_id, env.stop)
    IN  IF ~is_valid_site_id(site_id) THEN Fail(c0, "ValueError:invalid")
        ELSE IF ~find_site(b, wd, site_id) THEN Fail(c0, "ValueError:unknown")
        ELSE IF c2.err # "OK" THEN c2
        ELSE Call(c2, ToolCall("chmod", site_id, 3, NoPort))

\* remove_site without the look-up of the identifier in the registry
remove_site_nofind(b, run, wd, site_id, env) ==
    LET dir == site_directory(site_id)
        c0 == Ctx(b, run)
        c1 == stop_if_running(c0, "www", site_id, env.wwwstop)
        c2 == stop_if_running(c1, "db", site_id, env.stop)
        c3 == Call(Call(c2, ToolCall("chmod", site_id, 3, NoPort)),
                   ToolCall("rm", site_id, 2, NoPort))
    IN  IF ~is_valid_site_id(site_id) THEN Fail(c0, "ValueError:invalid")
        ELSE IF c2.err # "OK" THEN c2
        ELSE [c3 EXCEPT !.b = DropEntry(@, dir)]

\* remove_site that stops the database server before the web server
remove_site_dbfirst(b, run, wd, site_id, env) ==
    LET dir == site_directory(site_id)
        c0 == Ctx(b, run)
        c1 == stop_if_running(c0, "db", site_id, env.stop)
        c2 == stop_if_running(c1, "www", site_id, env.wwwstop)
        c3 == Call(Call(c2, ToolCall("chmod", site_id, 3, NoPort)),
                   ToolCall("rm", site_id, 2, NoPort))
    IN  IF ~is_valid_site_id(site_id) THEN Fail(c0, "ValueError:invalid")
        ELSE IF ~find_site(b, wd, site_id) THEN Fail(c0, "ValueError:unknown")
        ELSE IF c2.err # "OK" THEN c2
        ELSE [c3 EXCEPT !.b = DropEntry(@, dir)]

remove_site(b, run, wd, site_id, env) ==
    LET dir == site_directory(site_id)
        c0 == Ctx(b, run)
        c1 == stop_if_running(c0, "www", site_id, env.wwwstop)
        c2 == stop_if_running(c1, "db", site_id, env.stop)
        c3 == Call(Call(c2, ToolCall("chmod", site_id, 3, NoPort)),
                   ToolCall("rm", site_id, 2, NoPort))
    IN  IF ~is_valid_site_id(site_id) THEN Fail(c0, "ValueError:invalid")
        ELSE IF ~find_site(b, wd, site_id) THEN Fail(c0, "ValueError:unknown")
        ELSE IF c2.err # "OK" THEN c2
        ELSE [c3 EXCEPT !.b = DropEntry(@, dir)]

(***************************************************************************)
(* Inputs                                                                  *)
(***************************************************************************)
SiteA == <<"a">>
SiteB == <<"b", "1">>
BadId == <<"b", "a", "d", "-", "i", "d", "!">>

SiteIds == {SiteA, SiteB, BadId}

DbTypes == {"mysql", "pgsql"}

Index == <<"i", "n", "d", "e", "x">>
Pkg == <<"p", "k", "g", "/">>

Rooted == Archive(<<Pkg, Pkg \o Index>>)
Flat == Archive(<<Index>> \o <<<<"x">>>>)

Apps == {NoApp, Rooted}

\* "clientFails": the mysql or psql client ends with a non-zero exit code
Faults ==
    {"pgsqlMissing", "initFails", "versionFails", "clientMissing",
     "clientFails", "apacheMissing", "apacheFails", "extractFails"}

Env(faults, start, stop, wwwstop) ==
    [faults |-> faults, start |-> start, stop |-> stop, wwwstop |-> wwwstop]

NoEnv == Env({}, 0, 0, 0)

\* the environments of an install: all goes well, db.stop fails
InstallEnvs == {NoEnv, Env({}, 0, 1, 0)}

\* the environments of a removal: the exit codes of www.stop and db.stop
RemoveEnvs == {Env({}, 0, ds, ws) : ds \in ExitCodes, ws \in ExitCodes}

(***************************************************************************)
(* Actions: one per entry point, run by the single operator                *)
(***************************************************************************)
\* the arguments site_install was called with and the environment it ran in
Args(db_type, app, env) == [db_type |-> db_type, app |-> app, env |-> env]

NoArgs == Args("none", NoApp, NoEnv)

Result(op, site_id, stage, err, port, ret, calls) ==
    [op |-> op, id |-> site_id, stage |-> stage, err |-> err, port |-> port,
     ret |-> ret, calls |-> calls, args |-> NoArgs]

\* the operator processes that may run at the same time, and their position
\* in command_install: "idle", or "found" once find_unused_port returned
Procs == {1, 2}

Idle == [pc |-> "idle", id |-> <<>>, port |-> NoPort]

AllIdle == [p \in Procs |-> Idle]

Init ==
    /\ base = [e \in {} |-> NewDir]
    /\ running = {}
    /\ cwd \in {"base", "other"}
    /\ res = Result("init", <<>>, "none", "OK", NoPort, FALSE, <<>>)
    /\ inflight = AllIdle

\* command_install: find_unused_port(), then site_install with that port;
\* with log, res.args keeps what site_install was called with
InstallLog(ids, dbs, apps, envs, log) ==
    LET errors == find_unused_port_errors(base, running, cwd)
    IN  \E site_id \in ids :
        IF errors # {}
        THEN /\ \E e \in errors :
                    res' = Result("install", site_id, "find_unused_port", e,
                                  NoPort, FALSE, <<>>)
             /\ UNCHANGED <<base, running, cwd, inflight>>
        ELSE \E db_type \in dbs, app \in apps, env \in envs :
             LET port == find_unused_port(base, running, cwd)
                 c == site_install(base, running, cwd, site_id, port,
                                   db_type, app, env)
             IN  /\ base' = c.b
                 /\ running' = c.run
                 /\ res' = [Result("install", site_id, "site_install", c.err,
                                   port, FALSE, c.calls)
                                EXCEPT !.args = IF log
                                                THEN Args(db_type, app, env)
                                                ELSE NoArgs]
                 /\ UNCHANGED <<cwd, inflight>>

InstallWith(ids, dbs, apps, envs) == InstallLog(ids, dbs, apps, envs, FALSE)

InstallLogged(ids, dbs, apps, envs) == InstallLog(ids, dbs, apps, envs, TRUE)

Install == InstallWith(SiteIds, DbTypes, Apps, InstallEnvs)

\* command_remove
RemoveWith(ids, envs) ==
    \E site_id \in ids, env \in envs :
        LET c == remove_site(base, running, cwd, site_id, env)
        IN  /\ base' = c.b
            /\ running' = c.run
            /\ res' = Result("remove", site_id, "remove_site", c.err,
                             NoPort, FALSE, c.calls)
            /\ UNCHANGED <<cwd, inflight>>

Remove == RemoveWith(SiteIds, RemoveEnvs)

\* find_unused_port whose probes stop the services they find
FindPort_stops ==
    /\ LET errors == find_unused_port_errors(base, running, cwd)
       IN  IF errors # {}
           THEN \E e \in errors :
                    res' = Result("find_unused_port", <<>>, "find_unused_port",
                                  e, NoPort, FALSE, <<>>)
           ELSE res' = Result("find_unused_port", <<>>, "find_unused_port",
                              "OK", find_unused_port(base, running, cwd),
                              FALSE, <<>>)
    /\ running' = {}
    /\ UNCHANGED <<base, cwd, inflight>>

\* a call of find_unused_port on its own
FindPort ==
    /\ LET errors == find_unused_port_errors(base, running, cwd)
       IN  IF errors # {}
           THEN \E e \in errors :
                    res' = Result("find_unused_port", <<>>, "find_unused_port",
                                  e, NoPort, FALSE, <<>>)
           ELSE res' = Result("find_unused_port", <<>>, "find_unused_port",
                              "OK", find_unused_port(base, running, cwd),
                              FALSE, <<>>)
    /\ UNCHANGED <<base, running, cwd, inflight>>

\* sdo(action, server, site_id), as the GUI calls it to start and stop;
\* res.port holds the exit code of the script
SdoWith(ids) ==
    \E site_id \in ids, server \in Servers, action \in ScriptActions,
       code \in ExitCodes :
        LET c == sdo_step(Ctx(base, running), action, server, site_id, code)
            exit == ScriptExit(running, action, server, site_id, code)
        IN  /\ site_directory(site_id) \in DOMAIN base
            /\ (action = "isrunning" => code = 0)
            /\ base' = c.b
            /\ running' = c.run
            /\ res' = Result("sdo", site_id, ScriptName(server, action), c.err,
                             IF c.err = "OK" THEN exit ELSE NoPort,
                             IF c.err = "OK" THEN sdo(exit) ELSE FALSE,
                             c.calls)
            /\ UNCHANGED <<cwd, inflight>>

\* the site whose services the operator starts and stops by hand
ServiceIds == {SiteA}

Sdo == SdoWith(ServiceIds)

\* the operator starts the next command from another directory
Chdir ==
    /\ cwd' \in {"base", "other"} \ {cwd}
    /\ res' = Result("chdir", <<>>, "none", "OK", NoPort, FALSE, <<>>)
    /\ UNCHANGED <<base, running, inflight>>

Next == Install \/ Remove \/ FindPort \/ Sdo \/ Chdir

Spec == Init /\ [][Next]_vars


(***************************************************************************)
(* A base directory whose port range is used up: NumPorts sites installed  *)
(* one after the other from BASE, and one more identifier to install.      *)
(***************************************************************************)
NumPorts == Cardinality(port_range)

DigitOf(n) ==
    CASE n = 0 -> "0" [] n = 1 -> "1" [] n = 2 -> "2" [] n = 3 -> "3"
      [] n = 4 -> "4" [] n = 5 -> "5" [] n = 6 -> "6" [] n = 7 -> "7"
      [] n = 8 -> "8" [] n = 9 -> "9"

PoolId(k) == <<"p", DigitOf(k \div 10), DigitOf(k % 10)>>

\* the site directory a successful install leaves
Installed(site_id, port) ==
    site_install([e \in {} |-> NewDir], {}, "base", site_id, port, "pgsql",
                 NoApp, NoEnv).b[site_directory(site_id)]

FullBase ==
    [e \in {site_directory(PoolId(k)) : k \in 0..(NumPorts - 1)} |->
        LET k == CHOOSE j \in 0..(NumPorts - 1) : site_directory(PoolId(j)) = e
        IN  Installed(PoolId(k), PORT_MIN + PORT_STEP * k)]

\* the identifiers the operator installs and removes: the sites holding the
\* first and the last port of the range, and one that is not installed
PoolInputs == {PoolId(0), PoolId(NumPorts - 1), PoolId(NumPorts)}

InitPool ==
    /\ base = FullBase
    /\ running = {}
    /\ cwd \in {"base", "other"}
    /\ res = Result("init", <<>>, "none", "OK", NoPort, FALSE, <<>>)
    /\ inflight = AllIdle

InstallPool == InstallWith(PoolInputs, {"pgsql"}, {NoApp}, {NoEnv})

RemovePool == RemoveWith(PoolInputs, {NoEnv})

NextPool == InstallPool \/ RemovePool \/ FindPort \/ Chdir

SpecPool == InitPool /\ [][NextPool]_vars

(***************************************************************************)
(* is_valid_site_id on its own                                             *)
(***************************************************************************)
MaxLen == 2

OtherChars == {"-", "!", LF}

Alphabet == {"a", "b", "Z", "1", "9", "_"} \cup UnicodeLetters \cup OtherChars

SeqsUpTo(n) == UNION {[1..k -> Alphabet] : k \in 0..n}

Repeat(c, n) == [i \in 1..n |-> c]

IdInputs ==
    SeqsUpTo(MaxLen)
    \cup {Repeat("a", n) : n \in (MaxIdTail - 1)..(MaxIdTail + 3)}
    \cup {Repeat("a", n) \o <<LF>> : n \in (MaxIdTail - 1)..(MaxIdTail + 3)}
    \cup {BadId, <<"9", "a", "b", "c">>}

InitId ==
    /\ base = [e \in {} |-> NewDir]
    /\ running = {}
    /\ cwd = "base"
    /\ res = Result("init", <<>>, "none", "OK", NoPort, FALSE, <<>>)
    /\ inflight = AllIdle

\* is_valid_site_id(site_id), its truth value kept in res.ret
CheckId ==
    /\ \E site_id \in IdInputs :
            res' = Result("is_valid_site_id", site_id, "none", "OK", NoPort,
                          is_valid_site_id(site_id), <<>>)
    /\ UNCHANGED <<base, running, cwd, inflight>>

NextId == CheckId

SpecId == InitId /\ [][NextId]_vars


(***************************************************************************)
(* One site on a host whose vendor tools may be missing or may fail, and   *)
(* whose db.start and db.stop may end with a non-zero exit code.           *)
(***************************************************************************)
FaultSets == {{}} \cup {{f} : f \in Faults}

\* one thing goes wrong during an install: a tool is missing or fails, or
\* db.start or db.stop end with a non-zero exit code
FaultEnvs ==
    {Env(faults, 0, 0, 0) : faults \in FaultSets}
    \cup {Env({}, start, stop, 0) : start \in ExitCodes, stop \in ExitCodes}

InstallFault == InstallLogged({SiteA}, DbTypes, Apps, FaultEnvs)

NextFault == InstallFault \/ Remove \/ FindPort \/ Sdo \/ Chdir

SpecFault == Init /\ [][NextFault]_vars

(***************************************************************************)
(* Two sites installed from application archives of every packaging.       *)
(***************************************************************************)
\* the archive of the directory d holding index
RootedAt(d) == Archive(<<d \o <<"/">>, d \o <<"/">> \o Index>>)

\* pkg/ holding two files
Rooted2 == Archive(<<Pkg, Pkg \o Index, Pkg \o <<"x">>>>)

\* pkg/index and pkg/x without a member for pkg/ itself
Bare == Archive(<<Pkg \o Index, Pkg \o <<"x">>>>)

\* one file at top level
Flat1 == Archive(<<Index>>)

Archives ==
    {NoApp, Rooted, Rooted2, Bare, Flat, Flat1} \cup {RootedAt(d) : d \in WwwDirs}

AppIds == {SiteA, SiteB}

InstallApp == InstallLogged(AppIds, {"pgsql"}, Archives, {NoEnv})

RemoveApp == RemoveWith(AppIds, {NoEnv})

NextApp == InstallApp \/ RemoveApp \/ Chdir

SpecApp == Init /\ [][NextApp]_vars

(***************************************************************************)
(* Two operator processes started in BASE that install at the same time.   *)
(* command_install evaluates find_unused_port() before it calls            *)
(* site_install: the other process may run between the two.                *)
(***************************************************************************)
RaceIds == {SiteA, SiteB}

InitRace ==
    /\ base = [e \in {} |-> NewDir]
    /\ running = {}
    /\ cwd = "base"
    /\ res = Result("init", <<>>, "none", "OK", NoPort, FALSE, <<>>)
    /\ inflight = AllIdle

\* command_install up to the return of find_unused_port()
RaceFind(p) ==
    /\ inflight[p].pc = "idle"
    /\ \E site_id \in RaceIds :
        LET errors == find_unused_port_errors(base, running, cwd)
        IN  IF errors # {}
            THEN /\ \E e \in errors :
                        res' = Result("install", site_id, "find_unused_port",
                                      e, NoPort, FALSE, <<>>)
                 /\ UNCHANGED inflight
            ELSE /\ inflight' =
                        [inflight EXCEPT ![p] =
                            [pc |-> "found", id |-> site_id,
                             port |-> find_unused_port(base, running, cwd)]]
                 /\ UNCHANGED res
    /\ UNCHANGED <<base, running, cwd>>

\* the call of site_install with the port found before
RaceInstall(p) ==
    /\ inflight[p].pc = "found"
    /\ LET c == site_install(base, running, cwd, inflight[p].id,
                             inflight[p].port, "pgsql", NoApp, NoEnv)
       IN  /\ base' = c.b
           /\ running' = c.run
           /\ res' = Result("install", inflight[p].id, "site_install", c.err,
                            inflight[p].port, FALSE, c.calls)
    /\ inflight' = [inflight EXCEPT ![p] = Idle]
    /\ UNCHANGED cwd

\* command_remove run by a process that is not in the middle of an install
RaceRemove ==
    /\ \E p \in Procs : inflight[p].pc = "idle"
    /\ RemoveWith(RaceIds, {NoEnv})

NextRace ==
    \/ \E p \in Procs : RaceFind(p)
    \/ \E p \in Procs : RaceInstall(p)
    \/ RaceRemove

SpecRace == InitRace /\ [][NextRace]_vars

(***************************************************************************)
(* A base directory that also holds entries the tool did not create, and   *)
(* the list command.                                                       *)
(***************************************************************************)
\* site-9abc, a directory holding a PORT file
Site9 == <<"9", "a", "b", "c">>

\* site-<25 letters>, an empty directory
LongId == Repeat("a", MaxIdTail + 2)

AppDir == <<"a", "p", "p", "l", "i", "c", "a", "t", "i", "o", "n">>

\* the port written in the PORT file of site-9abc
ForeignPort == PORT_MIN + 2 * PORT_STEP

\* site-b1 is a regular file here, application the directory of the archives
Foreign ==
    [e \in {site_directory(Site9), site_directory(LongId),
            site_directory(SiteB), AppDir} |->
        IF e = site_directory(Site9) THEN [NewDir EXCEPT !.port = ForeignPort]
        ELSE IF e = site_directory(SiteB) THEN [NewDir EXCEPT !.kind = "file"]
        ELSE NewDir]

InitDir ==
    /\ \E entries \in SUBSET DOMAIN Foreign :
            base = [e \in entries |-> Foreign[e]]
    /\ running = {}
    /\ cwd \in {"base", "other"}
    /\ res = Result("init", <<>>, "none", "OK", NoPort, FALSE, <<>>)
    /\ inflight = AllIdle

\* command_list: res.ret holds the tuples sites_states returned
List ==
    /\ LET errors == sites_states_errors(base, cwd)
       IN  IF errors # {}
           THEN \E e \in errors :
                    res' = Result("list", <<>>, "sites_states", e, NoPort,
                                  {}, <<>>)
           ELSE res' = Result("list", <<>>, "sites_states", "OK", NoPort,
                              sites_states(base, running, cwd), <<>>)
    /\ UNCHANGED <<base, running, cwd, inflight>>

DirIds == {SiteA, Site9}

InstallDir == InstallLogged(DirIds, {"pgsql"}, {NoApp}, {NoEnv})

RemoveDir == RemoveWith(DirIds, {NoEnv})

NextDir == InstallDir \/ RemoveDir \/ List \/ FindPort \/ Sdo \/ Chdir

SpecDir == InitDir /\ [][NextDir]_vars


(***************************************************************************)
(* Properties                                                              *)
(***************************************************************************)
\* the base ports written in the PORT files of the site directories
HeldPorts == {base[e].port : e \in DOMAIN base} \ {NoPort}

Triple(p) == {p, p + 1, p + 2}

InstallReturned ==
    res.op = "install" /\ res.stage = "site_install" /\ res.err = "OK"

\* C1: no two existing sites have the same base port, and the port triples
\* {p, p+1, p+2} of two distinct existing sites are disjoint
C1_PortsDisjoint ==
    \A e1 \in DOMAIN base : \A e2 \in DOMAIN base :
        (e1 # e2 /\ base[e1].port # NoPort /\ base[e2].port # NoPort)
            => Triple(base[e1].port) \cap Triple(base[e2].port) = {}

\* C2: find_unused_port returns the smallest value of the range that is not
\* the base port of a site reported by sites_states, never a port held by a
\* site, and 10006 when the sites hold 10000 and 10003
C2_SmallestFree ==
    (res.op = "find_unused_port" /\ res.err = "OK") =>
        /\ res.port \in port_range
        /\ res.port \notin used_ports(base, running, cwd)
        /\ \A q \in port_range :
              q < res.port => q \in used_ports(base, running, cwd)
        /\ res.port \notin HeldPorts
        /\ (HeldPorts = {10000, 10003} => res.port = 10006)

\* C3: when every port of the range is held by a site, find_unused_port fails
\* with StopIteration; it never returns a held port or a value outside the
\* range
C3_Exhausted ==
    res.op = "find_unused_port" =>
        /\ (port_range \subseteq HeldPorts => res.err = "StopIteration")
        /\ (res.err = "OK" => res.port \in port_range \ HeldPorts)

\* C4: after site_install returned without error, find_site(id) is true and
\* site_port(id) is the port that was passed in
C4_InstallRegisters ==
    InstallReturned =>
        /\ find_site(base, cwd, res.id)
        /\ HasPort(base, res.id)
        /\ site_port(base, res.id) = res.port

\* C5: after remove_site(id) returned without error, find_site(id) is false,
\* the site directory is gone and every other site directory is as it was
C5_RemoveDeletes ==
    [][(res'.op = "remove" /\ res'.err = "OK") =>
          /\ ~find_site(base', cwd', res'.id)
          /\ site_directory(res'.id) \notin DOMAIN base'
          /\ \A e \in (DOMAIN base) \ {site_directory(res'.id)} :
                e \in DOMAIN base' /\ base'[e] = base[e]]_vars

C5_Witness ==
    res.op = "remove" /\ res.err = "OK" /\ DOMAIN base # {}

\* C6: site_install with an identifier that fails the format check fails with
\* the invalid-identifier error, leaves the file system and the services as
\* they were and runs no installer and no control script
C6_InvalidIdNoEffect ==
    [][(/\ res'.op = "install"
        /\ res'.stage = "site_install"
        /\ ~is_valid_site_id(res'.id)) =>
          /\ res'.err = "ValueError:invalid"
          /\ base' = base
          /\ running' = running
          /\ res'.calls = <<>>]_vars

C6_Witness ==
    /\ res.op = "install"
    /\ res.stage = "site_install"
    /\ res.id = BadId
    /\ res.err = "ValueError:invalid"

C8_RemoveRefused ==
    [][(/\ res'.op = "remove"
        /\ (~is_valid_site_id(res'.id) \/ ~find_site(base, cwd, res'.id))) =>
          /\ res'.err = (IF is_valid_site_id(res'.id)
                         THEN "ValueError:unknown" ELSE "ValueError:invalid")
          /\ base' = base
          /\ running' = running
          /\ res'.calls = <<>>]_vars

C8_Witness ==
    res.op = "remove" /\ res.err = "ValueError:unknown" /\ DOMAIN base # {}

\* the regular expression of the data model, over ASCII
ClaimedSiteId(s) ==
    /\ Len(s) >= 1
    /\ Len(s) <= 24
    /\ IsAsciiLetter(s[1])
    /\ \A i \in 2..Len(s) : s[i] \in AsciiLetters \cup Digits \cup {"_"}

\* C9: is_valid_site_id is true exactly for the strings made of a letter
\* followed by at most 23 ASCII letters, digits or underscores
C9_ExactlyTheFormat ==
    res.op = "is_valid_site_id" => (res.ret <=> ClaimedSiteId(res.id))

\* C10: sdo runs exactly the script <server>.<action> of the site, with no
\* argument, and returns True if and only if the script exited with code 0
C10_SdoReflectsExit ==
    (res.op = "sdo" /\ res.err = "OK") =>
        /\ res.calls = <<[cmd |-> res.stage, site |-> res.id, nargs |-> 0,
                          port |-> NoPort]>>
        /\ (res.ret <=> res.port = 0)

C10_Witness ==
    /\ res.op = "sdo"
    /\ res.err = "OK"
    /\ res.stage = "db.isrunning"
    /\ res.port = 0
    /\ res.ret

\* site_install went past its checks and created the site directory
InstallStarted(r) ==
    /\ r.op = "install"
    /\ r.stage = "site_install"
    /\ r.err \notin {"ValueError:invalid", "ValueError:exists", "FileExistsError"}

\* the top-level directory of a member name, <<>> for a name without "/"
Top(name) ==
    IF \E i \in 1..Len(name) : name[i] = "/"
    THEN SubSeq(name, 1, Min({i \in 1..Len(name) : name[i] = "/"}))
    ELSE <<>>

\* every member lies in one top-level directory
IsRooted(app) ==
    /\ Top(app.members[1]) # <<>>
    /\ \A k \in 1..Len(app.members) : Top(app.members[k]) = Top(app.members[1])

FileMembers(app) ==
    {app.members[k] : k \in {j \in 1..Len(app.members) :
                                MemberKind(app.members[j]) = "file"}}

\* the files of the application, named from its top-level directory when
\* the archive is rooted
Payload(app) ==
    IF IsRooted(app)
    THEN {SubSeq(f, Len(Top(f)) + 1, Len(f)) : f \in FileMembers(app)}
    ELSE FileMembers(app)

\* the files below www/doc, named from www/doc
DocFiles(tree) ==
    {SubSeq(p, Len(DocDir) + 2, Len(p)) :
        p \in {q \in Below(tree, DocDir) : tree[q] = "file"}}

WwwOf(site_id) == base[site_directory(site_id)].www

\* C11: installing the archive of a directory pkg/ that holds a set of files
\* and installing the archive that holds the same files at top level both end
\* without error with exactly these files directly under www/doc, a single
\* file included
C11_SamePlacement ==
    (/\ InstallStarted(res)
     /\ res.args.app.given
     /\ (IsRooted(res.args.app) => Top(res.args.app.members[1]) = Pkg)) =>
        /\ res.err = "OK"
        /\ DocDir \in DOMAIN WwwOf(res.id)
        /\ DocFiles(WwwOf(res.id)) = Payload(res.args.app)

\* the step of site_install an error other than a refusal was raised in
FailedStep(r) ==
    IF r.args.db_type = "mysql" THEN "db"
    ELSE IF r.args.env.faults \cap {"initFails", "versionFails", "clientMissing"} # {}
         THEN "db"
    ELSE IF r.args.env.faults \cap {"apacheMissing", "apacheFails"} # {} THEN "www"
    ELSE "app"

Ran(r, cmd) == \E k \in 1..Len(r.calls) : r.calls[k].cmd = cmd

\* C12: when a step of site_install fails after the site directory was made,
\* the error is raised, the later steps are not run, the site directory and
\* its PORT file stay, the site is registered with its port, and a later
\* site_install with the same identifier fails with the already-exists error
C12_NoRollback ==
    [][(InstallStarted(res') /\ res'.err # "OK") =>
          LET dir == site_directory(res'.id)
          IN  /\ HasPort(base', res'.id)
              /\ site_port(base', res'.id) = res'.port
              /\ (FailedStep(res') = "db" =>
                    /\ "www" \notin DOMAIN base'[dir].files
                    /\ ~Ran(res', "apache2"))
              /\ (FailedStep(res') \in {"db", "www"} =>
                    /\ WwwScripts \cap DOMAIN base'[dir].files = {}
                    /\ ~Ran(res', "extract"))
              /\ find_site(base', cwd', res'.id)
              /\ \A db_type \in DbTypes :
                    site_install(base', running', cwd', res'.id, res'.port,
                                 db_type, NoApp, NoEnv).err
                        = "ValueError:exists"]_vars

\* a site directory with its PORT file, and a control script that is missing
Partial(b, site_id) ==
    /\ is_valid_site_id(site_id)
    /\ HasPort(b, site_id)
    /\ \E script \in DbScripts \cup WwwScripts : ~HasScript(b, site_id, script)

\* C13: remove_site on a site whose install stopped partway (directory and
\* PORT file present, some control script never written) ends without error
\* and deletes the site directory
C13_PartialRemovable ==
    [][(res'.op = "remove" /\ Partial(base, res'.id)) =>
          /\ res'.err = "OK"
          /\ site_directory(res'.id) \notin DOMAIN base']_vars

\* a vendor tool or a control script that site_install ran ended with a
\* non-zero exit code
BootstrapFailure(r) ==
    \/ (Ran(r, "initdb") \/ Ran(r, "mysql_install_db"))
          /\ "initFails" \in r.args.env.faults
    \/ (Ran(r, "psql") \/ Ran(r, "mysql")) /\ "clientFails" \in r.args.env.faults
    \/ Ran(r, "db.start") /\ r.args.env.start # 0
    \/ Ran(r, "db.stop") /\ r.args.env.stop # 0

\* C14: when a vendor tool (mysql_install_db, initdb, the mysql or psql
\* client) or a control script (db.start, db.stop) run by the install ends
\* with a non-zero exit code, site_install raises: it does not return
\* without error
C14_BootstrapFailureRaises ==
    (InstallStarted(res) /\ BootstrapFailure(res)) => res.err # "OK"

DbConfigs == {"mysql.conf", "pgsql.conf", "db/data/postgresql.conf"}

\* the layout of an installed site
Complete(b, site_id) ==
    LET dir == b[site_directory(site_id)]
    IN  /\ HasPort(b, site_id)
        /\ \A d \in DbDirs \cup {"www"} :
              d \in DOMAIN dir.files /\ dir.files[d] = "dir"
        /\ \A d \in WwwDirs : d \in DOMAIN dir.www /\ dir.www[d] = "dir"
        /\ "apache2.conf" \in DOMAIN dir.files
        /\ DbConfigs \cap DOMAIN dir.files # {}
        /\ \A script \in DbScripts \cup WwwScripts :
              script \in DOMAIN dir.files /\ dir.files[script] = "rwx"

\* C15: after site_install returned without error the site directory holds
\* the PORT file, db/{run,log,data}, www/{log,lock,run,doc}, apache2.conf, a
\* database configuration file and the six control scripts, each executable
\* by its owner, and the probes of the site raise no error
C15_InstalledLayout ==
    InstallReturned =>
        /\ Complete(base, res.id)
        /\ probe_error(base, res.id) = "OK"

DbTools == {"initdb", "postgres", "psql", "db.start", "db.stop"}

\* C16: when the PostgreSQL binary directory is not found, pgsql_install
\* raises nothing and creates no db/ directory, no database configuration
\* file and no db control script; site_install goes on with the web server
\* install and returns without error
C16_MissingPgsqlSkipped ==
    [][(/\ InstallStarted(res')
        /\ res'.args.db_type = "pgsql"
        /\ res'.args.env.faults = {"pgsqlMissing"}) =>
          LET dir == base'[site_directory(res'.id)]
          IN  /\ res'.err = "OK"
              /\ (DbDirs \cup DbScripts \cup DbConfigs) \cap DOMAIN dir.files = {}
              /\ dir.db = NoPort
              /\ \A tool \in DbTools : ~Ran(res', tool)
              /\ Ran(res', "apache2")
              /\ WwwScripts \subseteq DOMAIN dir.files
              /\ running' = running]_vars

C16_Witness ==
    /\ InstallReturned
    /\ res.args.db_type = "pgsql"
    /\ res.args.env.faults = {"pgsqlMissing"}
    /\ HasScript(base, res.id, "www.start")
    /\ ~HasScript(base, res.id, "db.start")

C18_RaceUndetected ==
    [][\A p \in Procs :
          (/\ inflight[p].pc = "found"
           /\ inflight'[p].pc = "idle"
           /\ inflight[p].port \in HeldPorts
           /\ site_directory(inflight[p].id) \notin DOMAIN base) =>
              /\ res'.err = "OK"
              /\ HasPort(base', inflight[p].id)
              /\ site_port(base', inflight[p].id) = inflight[p].port
              /\ \E e \in DOMAIN base :
                    /\ e # site_directory(inflight[p].id)
                    /\ base'[e].port = inflight[p].port]_vars

\* two sites with different identifiers hold the same base port, both
\* installed by processes started in BASE
C18_Witness ==
    /\ cwd = "base"
    /\ InstallReturned
    /\ \E e \in DOMAIN base :
          /\ e # site_directory(res.id)
          /\ base[e].port = res.port
          /\ base[site_directory(res.id)].port = res.port

\* C19: when remove_site has deleted the site directory, neither the web
\* server nor the database server of the site is still running
C19_StoppedBeforeDelete ==
    (res.op = "remove" /\ res.err = "OK") =>
        \A server \in Servers : <<res.id, server>> \notin running

\* C20: after an install whose application_install returned without error,
\* www/doc holds the files of the application and www/log, www/lock and
\* www/run still exist, however the archive is packaged
C20_DocrootAndSiblings ==
    (InstallReturned /\ res.args.app.given) =>
        /\ \A d \in WwwDirs :
              d \in DOMAIN WwwOf(res.id) /\ WwwOf(res.id)[d] = "dir"
        /\ DocFiles(WwwOf(res.id))
              \in {Payload(res.args.app), FileMembers(res.args.app)}

\* the positions of a command in the commands an operation ran
Pos(r, cmd) == {k \in 1..Len(r.calls) : r.calls[k].cmd = cmd}

\* every run of a command of first comes before every run of a command of
\* second
Before(r, first, second) ==
    \A c1 \in first, c2 \in second :
        \A i \in Pos(r, c1), j \in Pos(r, c2) : i < j

\* C21: site_install runs its steps in the order identifier check,
\* registry check, directory, PORT file, database installer, web server
\* installer, application installer; each step starts after the one before
\* has ended, and the application installer runs exactly when an archive
\* was given
C21_StepOrder ==
    [][(res'.op = "install" /\ res'.stage = "site_install") =>
          LET dir == site_directory(res'.id)
          IN  /\ (~is_valid_site_id(res'.id) \/ find_site(base, cwd, res'.id)) =>
                    (/\ base' = base
                     /\ res'.calls = <<>>
                     /\ res'.err = (IF is_valid_site_id(res'.id)
                                    THEN "ValueError:exists"
                                    ELSE "ValueError:invalid"))
              /\ InstallStarted(res') =>
                    /\ dir \notin DOMAIN base
                    /\ HasPort(base', res'.id)
                    /\ site_port(base', res'.id) = res'.port
                    /\ \A k \in Pos(res', "psql") :
                          res'.calls[k].port = res'.port
                    /\ Before(res', DbTools \cup {"mysql_install_db", "mysql"},
                              {"apache2"})
                    /\ Before(res', {"apache2"}, {"extract"})
                    /\ (Ran(res', "apache2") /\ DbScripts \subseteq
                            DOMAIN base'[dir].files) => Ran(res', "db.stop")
                    /\ Ran(res', "extract") =>
                          (/\ res'.args.app.given
                           /\ WwwScripts \subseteq DOMAIN base'[dir].files)
                    /\ (res'.err = "OK" /\ res'.args.app.given) =>
                          Ran(res', "extract")]_vars

C21_Witness ==
    /\ InstallReturned
    /\ res.args.app.given
    /\ Ran(res, "psql")
    /\ Ran(res, "apache2")
    /\ Ran(res, "extract")

\* the names of the commands an operation ran, in order
Cmds(r) == [k \in 1..Len(r.calls) |-> r.calls[k].cmd]

\* the probe of a server, followed by its stop script when it was running
StopSteps(run, server, site_id) ==
    <<ScriptName(server, "isrunning")>>
    \o (IF <<site_id, server>> \in run
        THEN <<ScriptName(server, "stop")>> ELSE <<>>)

AllScripts(b, site_id) ==
    \A script \in DbScripts \cup WwwScripts : HasScript(b, site_id, script)

C23_FreshProbes ==
    (res.op = "list" /\ res.err = "OK") =>
        res.ret = {<<i, base[site_directory(i)].port,
                     <<i, "www">> \in running,
                     <<i, "db">> \in running>> : i \in list_sites(base, cwd)}

\* a site listed with its web server running and its database server stopped
C23_Witness ==
    /\ res.op = "list"
    /\ res.err = "OK"
    /\ \E t \in res.ret : t[3] /\ ~t[4]

\* the identifiers of the directories of BASE named site-<id>
BaseSiteIds ==
    {SplitId(e) : e \in {d \in DOMAIN base :
                            base[d].kind = "dir" /\ SiteFormat(d)}}

\* C24: the sites listed are exactly the directories of BASE whose name
\* matches site-<id>, whatever the working directory of the process, and
\* find_site(id) is membership in that list
C24_ListsBaseDirs ==
    (res.op = "list" /\ res.err = "OK") =>
        /\ {t[1] : t \in res.ret} = BaseSiteIds
        /\ \A site_id \in DirIds :
              find_site(base, cwd, site_id) <=> site_id \in BaseSiteIds

\* C25: in a database installer db.start runs after the system tables were
\* initialised and the configuration and the db control scripts were
\* rendered, the client is fed after the start, the start is followed by a
\* stop, and the database server of the site does not run when site_install
\* has returned
C25_BootstrapOrder ==
    InstallStarted(res) =>
        LET dir == base[site_directory(res.id)]
        IN  /\ Before(res, {"initdb", "postgres", "mysql_install_db"},
                      {"db.start"})
            /\ Ran(res, "db.start") =>
                  /\ DbScripts \subseteq DOMAIN dir.files
                  /\ DbConfigs \cap DOMAIN dir.files # {}
            /\ Before(res, {"db.start"}, {"psql", "mysql"})
            /\ Before(res, {"psql", "mysql"}, {"db.stop"})
            /\ (res.err = "OK" /\ Ran(res, "db.start")) => Ran(res, "db.stop")
            /\ res.err = "OK" => <<res.id, "db">> \notin running

\* C26: a site whose PORT file holds p has its HTTP server configured on p,
\* its HTTPS server on p + 1 and its database server on p + 2, and the psql
\* client run by pgsql_create_user connects to p + 2
C26_PortLayout ==
    InstallStarted(res) =>
        LET dir == base[site_directory(res.id)]
        IN  /\ dir.http # NoPort => dir.http = dir.port
            /\ dir.https # NoPort => dir.https = dir.port + 1
            /\ dir.db # NoPort => dir.db = dir.port + 2
            /\ \A i \in DOMAIN res.calls :
                  res.calls[i].cmd = "psql" =>
                      res.calls[i].port = dir.port + 2

(***************************************************************************)
(* get_root_directory on its own, over the member lists of small archives  *)
(***************************************************************************)
MaxMembers == 3

Lib == <<"l", "i", "b", "/">>

MemberNames ==
    {Pkg, Pkg \o Index, Pkg \o <<"x">>, Lib, Index, <<"x">>}

MemberLists == UNION {[1..k -> MemberNames] : k \in 1..MaxMembers}

\* get_root_directory(filename) for an archive with the given members, its
\* result kept in res.ret
CheckRoot ==
    /\ \E members \in MemberLists :
            res' = [Result("get_root_directory", <<>>, "none", "OK", NoPort,
                           get_root_directory(members), <<>>)
                        EXCEPT !.args.app = Archive(members)]
    /\ UNCHANGED <<base, running, cwd, inflight>>

NextArc == CheckRoot

SpecArc == InitId /\ [][NextArc]_vars

\* C27: get_root_directory returns a root directory exactly when every member
\* of the archive lies under one common top-level directory, and then returns
\* that directory; the order of the members and the presence of a member for
\* the directory itself do not matter, and one file at top level is not rooted
C27_RootIffCommonTop ==
    res.op = "get_root_directory" =>
        /\ res.ret # NoRoot <=> IsRooted(res.args.app)
        /\ IsRooted(res.args.app) => res.ret = Top(res.args.app.members[1])

\* C28: for every port p that find_unused_port returns, the three ports of
\* the site, p, p + 1 and p + 2, lie in PORT_MIN .. PORT_MAX - 1
C28_TripleInRange ==
    (res.op = "find_unused_port" /\ res.err = "OK") =>
        Triple(res.port) \subseteq PORT_MIN..(PORT_MAX - 1)

\* C29: whatever ~/www holds, every id that list_sites returns satisfies
\* is_valid_site_id, and neither the listing of the sites, nor
\* find_unused_port, nor remove_site ends on the assertion of sdo
C29_ListedIdsValid ==
    /\ \A site_id \in list_sites(base, cwd) : is_valid_site_id(site_id)
    /\ res.op \in {"list", "find_unused_port", "remove"} =>
            res.err # "AssertionError"

(***************************************************************************)
(* Two operator processes inside site_install at the same time.  Each      *)
(* process is followed statement by statement: the checks of the           *)
(* identifier, mkdir, the write of PORT, the installers.                   *)
(***************************************************************************)
\* the checks that open site_install: the error raised, "OK" if none
site_check(b, wd, site_id) ==
    IF ~is_valid_site_id(site_id) THEN "ValueError:invalid"
    ELSE IF find_site(b, wd, site_id) THEN "ValueError:exists"
    ELSE "OK"

\* mkdir that accepts a directory that is already there
site_mkdir_existok(b, run, site_id) ==
    IF site_directory(site_id) \in DOMAIN b THEN Ctx(b, run)
    ELSE [Ctx(b, run) EXCEPT !.b = AddEntry(b, site_directory(site_id), NewDir)]

\* mkdir(directory_name)
site_mkdir(b, run, site_id) ==
    IF site_directory(site_id) \in DOMAIN b
    THEN Fail(Ctx(b, run), "FileExistsError")
    ELSE [Ctx(b, run) EXCEPT !.b = AddEntry(b, site_directory(site_id), NewDir)]

\* the write of the PORT file
site_write_port(b, run, site_id, port) ==
    [Ctx(b, run) EXCEPT !.b[site_directory(site_id)].port = port]

\* the database installer, then the web server installer
site_servers(b, run, site_id, port, db_type, env) ==
    LET c2 == db_install(Ctx(b, run), db_type, site_id, port, env)
    IN  IF c2.err # "OK" THEN c2 ELSE apache2_install(c2, site_id, port, env)

SameCheck(p) ==
    /\ inflight[p].pc = "found"
    /\ LET err == site_check(base, cwd, inflight[p].id)
       IN  IF err # "OK"
           THEN /\ res' = Result("install", inflight[p].id, "site_install",
                                 err, inflight[p].port, FALSE, <<>>)
                /\ inflight' = [inflight EXCEPT ![p] = Idle]
           ELSE /\ inflight' = [inflight EXCEPT ![p].pc = "checked"]
                /\ UNCHANGED res
    /\ UNCHANGED <<base, running, cwd>>

SameMkdir(p) ==
    /\ inflight[p].pc = "checked"
    /\ LET c == site_mkdir(base, running, inflight[p].id)
       IN  /\ base' = c.b
           /\ running' = c.run
           /\ IF c.err # "OK"
              THEN /\ res' = Result("install", inflight[p].id, "site_install",
                                    c.err, inflight[p].port, FALSE, <<>>)
                   /\ inflight' = [inflight EXCEPT ![p] = Idle]
              ELSE /\ inflight' = [inflight EXCEPT ![p].pc = "made"]
                   /\ UNCHANGED res
    /\ UNCHANGED cwd

SameWritePort(p) ==
    /\ inflight[p].pc = "made"
    /\ LET c == site_write_port(base, running, inflight[p].id,
                                inflight[p].port)
       IN  /\ base' = c.b
           /\ running' = c.run
    /\ inflight' = [inflight EXCEPT ![p].pc = "ported"]
    /\ UNCHANGED <<cwd, res>>

SameServers(p) ==
    /\ inflight[p].pc = "ported"
    /\ LET c == site_servers(base, running, inflight[p].id, inflight[p].port,
                             "pgsql", NoEnv)
       IN  /\ base' = c.b
           /\ running' = c.run
           /\ res' = Result("install", inflight[p].id, "site_install", c.err,
                            inflight[p].port, FALSE, c.calls)
    /\ inflight' = [inflight EXCEPT ![p] = Idle]
    /\ UNCHANGED cwd

NextSame ==
    \/ \E p \in Procs : RaceFind(p)
    \/ \E p \in Procs : SameCheck(p)
    \/ \E p \in Procs : SameMkdir(p)
    \/ \E p \in Procs : SameWritePort(p)
    \/ \E p \in Procs : SameServers(p)

SpecSame == InitRace /\ [][NextSame]_vars

\* the processes that created the directory of a site and did not leave
\* site_install yet
Makers(fl, site_id) ==
    {p \in Procs : fl[p].pc \in {"made", "ported"} /\ fl[p].id = site_id}

\* C30: when two processes run site_install for one identifier at the same
\* time, at most one of them creates the directory and goes on to fill it;
\* a process that comes to mkdir when the directory is there ends with
\* FileExistsError and changes neither ~/www nor the running servers
C30_OneCreator ==
    [][/\ \A site_id \in RaceIds : Cardinality(Makers(inflight', site_id)) <= 1
       /\ \A p \in Procs :
            (/\ inflight[p].pc = "checked"
             /\ inflight'[p].pc # "checked"
             /\ site_directory(inflight[p].id) \in DOMAIN base)
            => /\ inflight'[p].pc = "idle"
               /\ res'.err = "FileExistsError"
               /\ res'.id = inflight[p].id
               /\ base' = base
               /\ running' = running]_vars

\* a process that passed find_site lost at mkdir against a process that goes
\* on inside site_install for the same identifier
C30_Witness ==
    /\ res.op = "install"
    /\ res.err = "FileExistsError"
    /\ Makers(inflight, res.id) # {}

====
